---- MODULE Spec2Model ----
(***************************************************************************)
(* NiFiWorkshop (setup/terraform/resources/labs/workshop_nifi.py): the     *)
(* setup labs and the teardown of the workshop, as the sequence of calls   *)
(* each method issues against the remote services, with every call free    *)
(* to return or to raise.                                                   *)
(*                                                                         *)
(* A call site is a record; a method is the sequence of its call sites in   *)
(* evaluation order (an argument's call comes before the call it is an      *)
(* argument of).  Local helpers that talk to no service (is_tls_enabled,    *)
(* get_the_pwd, get_hostname) are inputs, not call sites.                   *)
(***************************************************************************)
EXTENDS Integers, Sequences, FiniteSets, TLC

\* ------------------------------------------------------------- bounds
\* Controllers the root process group may hold when teardown runs.
MaxControllers == 3
\* The history's count of completed passes saturates here (the loop itself
\* is not bounded by it).
MaxPasses == MaxControllers + 2

\* ---------------------------------------------------------- constants
None == 0
PG_NAME == "Process Sensor Data"
HTTP_OK == 200
HTTP_CONFLICT == 409
HttpStatuses == {200, 404}

Min(a, b) == IF a < b THEN a ELSE b

\* ------------------------------------------------------- call sites
\* line: source line of the call; callee: the function called;
\* when: the branch the site sits in; derefs: context fields whose
\* attribute (.id, .version_control_information) the arguments read;
\* tlsDerefs: the same, read only under is_tls_enabled(); passes: context
\* fields handed over as they are; sets: context fields assigned from the
\* result; op: what the call does to the remote state; makes: the kind of
\* remote object a successful call creates; arg: a literal argument.
Call(line, callee) ==
    [line |-> line, callee |-> callee, when |-> "always", derefs |-> {},
     tlsDerefs |-> {}, passes |-> {}, sets |-> {}, op |-> "call",
     makes |-> "", arg |-> ""]

Connection(line) ==
    [Call(line, "canvas.create_connection") EXCEPT !.makes = "connection"]

Processor(line, derefs) ==
    [Call(line, "nf.create_processor") EXCEPT
        !.derefs = derefs, !.passes = {"sensor_pg"}, !.makes = "processor"]

KafkaProps(line) ==
    [Call(line, "kafka.get_common_client_properties") EXCEPT
        !.op = "context"]

before_setup ==
    << [Call(54, "nf.set_environment") EXCEPT
           !.sets = {"root_pg", "efm_pg_id", "flow_id"}],
       [Call(55, "skip_cdsw") EXCEPT !.op = "skip_cdsw", !.sets = {"skip_cdsw"}] >>

after_setup ==
    << [Call(58, "nf.wait_for_data") EXCEPT !.arg = PG_NAME] >>

lab1_register_schema ==
    << [Call(90, "read_in_schema") EXCEPT !.op = "read_in_schema"],
       [Call(89, "schreg.create_schema") EXCEPT
           !.makes = "schema", !.arg = "SensorReading"] >>

\* lines 93-105: bucket, registry client, process group, first save
lab2_registry ==
    << [Call(94, "versioning.get_registry_bucket") EXCEPT
           !.op = "bucket_get", !.sets = {"sensor_bucket"}],
       [Call(96, "versioning.create_registry_bucket") EXCEPT
           !.when = "noBucket", !.op = "bucket_create",
           !.sets = {"sensor_bucket"}, !.makes = "bucket"],
       Call(100, "nifireg.get_url"),
       [Call(99, "versioning.create_registry_client") EXCEPT
           !.sets = {"reg_client"}, !.makes = "registry_client"],
       [Call(101, "canvas.create_process_group") EXCEPT
           !.passes = {"root_pg"}, !.sets = {"sensor_pg"},
           !.makes = "process_group", !.arg = PG_NAME],
       [Call(102, "nifireg.save_flow_ver") EXCEPT
           !.passes = {"sensor_pg", "reg_client", "sensor_bucket"},
           !.sets = {"sensor_flow"}, !.op = "save_new",
           !.arg = "Enabled version control"] >>

\* lines 107-132: the default SSL context controller service
lab2_ssl_context_noRefetch ==
    << [Call(120, "canvas.get_controller") EXCEPT
           !.when = "tls", !.op = "ssl_lookup", !.sets = {"ssl_svc"}],
       [Call(122, "canvas.schedule_controller") EXCEPT
           !.when = "tlsFound", !.op = "ssl_disable", !.passes = {"ssl_svc"}],
       [Call(124, "canvas.update_controller") EXCEPT
           !.when = "tlsFound", !.op = "ssl_update", !.passes = {"ssl_svc"}],
       [Call(125, "canvas.get_controller") EXCEPT
           !.when = "tlsFound", !.op = "ssl_get", !.sets = {"ssl_svc"}],
       [Call(126, "canvas.schedule_controller") EXCEPT
           !.when = "tlsFound", !.op = "ssl_enable", !.passes = {"ssl_svc"}],
       [Call(128, "nf.create_controller") EXCEPT
           !.when = "tlsNotFound", !.op = "ssl_create",
           !.passes = {"root_pg"}, !.sets = {"keytab_svc"},
           !.makes = "controller"] >>

lab2_ssl_context ==
    << [Call(120, "canvas.get_controller") EXCEPT
           !.when = "tls", !.op = "ssl_lookup", !.sets = {"ssl_svc"}],
       [Call(122, "canvas.schedule_controller") EXCEPT
           !.when = "tlsFound", !.op = "ssl_disable", !.passes = {"ssl_svc"}],
       [Call(123, "canvas.get_controller") EXCEPT
           !.when = "tlsFound", !.op = "ssl_get", !.sets = {"ssl_svc"}],
       [Call(124, "canvas.update_controller") EXCEPT
           !.when = "tlsFound", !.op = "ssl_update", !.passes = {"ssl_svc"}],
       [Call(125, "canvas.get_controller") EXCEPT
           !.when = "tlsFound", !.op = "ssl_get", !.sets = {"ssl_svc"}],
       [Call(126, "canvas.schedule_controller") EXCEPT
           !.when = "tlsFound", !.op = "ssl_enable", !.passes = {"ssl_svc"}],
       [Call(128, "nf.create_controller") EXCEPT
           !.when = "tlsNotFound", !.op = "ssl_create",
           !.passes = {"root_pg"}, !.sets = {"keytab_svc"},
           !.makes = "controller"] >>

\* lines 134-184: keytab, schema registry, readers and writers
Lab2Services ==
    << Call(151, "schreg.get_api_url"),
       [Call(158, "nf.create_controller") EXCEPT
           !.tlsDerefs = {"keytab_svc", "ssl_svc"}, !.passes = {"sensor_pg"},
           !.sets = {"sr_svc"}, !.makes = "controller"],
       [Call(162, "nf.create_controller") EXCEPT
           !.derefs = {"sr_svc"}, !.passes = {"sensor_pg"},
           !.sets = {"json_reader_svc"}, !.makes = "controller"],
       [Call(169, "nf.create_controller") EXCEPT
           !.derefs = {"sr_svc"}, !.passes = {"sensor_pg"},
           !.sets = {"json_writer_svc"}, !.makes = "controller"],
       [Call(177, "nf.create_controller") EXCEPT
           !.derefs = {"sr_svc"}, !.passes = {"sensor_pg"},
           !.sets = {"avro_writer_svc"}, !.makes = "controller"] >>

Lab2Keytab ==
    << [Call(141, "nf.create_controller") EXCEPT
           !.when = "tls", !.passes = {"sensor_pg"},
           !.sets = {"keytab_svc"}, !.makes = "controller"],
       [Call(147, "None") EXCEPT
           !.when = "notTls", !.op = "assign_none",
           !.sets = {"ssl_svc", "keytab_svc"}] >>

lab2_controllers_noLookup == Lab2Keytab \o Lab2Services

lab2_controllers ==
    << [Call(136, "canvas.get_controller") EXCEPT
           !.when = "tls", !.op = "ssl_get", !.sets = {"ssl_svc"}] >>
    \o Lab2Keytab \o Lab2Services

\* lines 186-217: port, processors, connections
lab2_flow ==
    << [Call(187, "canvas.create_port") EXCEPT
           !.derefs = {"sensor_pg"}, !.makes = "port"],
       Processor(189, {}),
       Connection(196),
       KafkaProps(203),
       Processor(205, {"json_reader_svc", "json_writer_svc"}),
       Connection(214),
       [Call(216, "nf.create_funnel") EXCEPT
           !.derefs = {"sensor_pg"}, !.makes = "funnel"],
       Connection(217) >>

\* lines 219-229: commit, start, connect the gateway input port
Lab2Save ==
    [Call(220, "nifireg.save_flow_ver") EXCEPT
        !.passes = {"sensor_pg", "reg_client", "sensor_bucket"},
        !.derefs = {"sensor_flow"}, !.op = "save_ver",
        !.arg = "First version"]

Lab2Start ==
    [Call(225, "canvas.schedule_process_group") EXCEPT
        !.derefs = {"root_pg"}, !.op = "start"]

Lab2Gateway ==
    << [Call(228, "nf.update_connection") EXCEPT
           !.passes = {"from_gw", "temp_funnel"}],
       [Call(229, "canvas.schedule_components") EXCEPT
           !.derefs = {"root_pg"}, !.op = "start"] >>

lab2_commit == << Lab2Save, Lab2Start >> \o Lab2Gateway

lab2_nifi_flow ==
    lab2_registry \o lab2_ssl_context \o lab2_controllers \o lab2_flow
    \o lab2_commit

\* lines 232-241: the Kudu table and the CDSW variables
lab4_variables ==
    << [Call(233, "kudu.create_table") EXCEPT !.makes = "table"],
       Call(234, "kudu.get_kudu_table_name"),
       [Call(239, "cdsw.get_model_access_key") EXCEPT !.when = "notSkip"],
       [Call(239, "canvas.update_variable_registry") EXCEPT
           !.when = "notSkip", !.passes = {"sensor_pg"},
           !.op = "variable", !.arg = "cdsw.access.key"],
       [Call(241, "cdsw.create_model_api_key") EXCEPT
           !.when = "notSkip", !.makes = "model_api_key"],
       [Call(241, "canvas.update_variable_registry") EXCEPT
           !.when = "notSkip", !.passes = {"sensor_pg"},
           !.op = "variable", !.arg = "cdsw.model.api.key"] >>

\* lines 243-266: the two controllers of lab4
lab4_controllers ==
    << [Call(244, "nf.create_controller") EXCEPT
           !.derefs = {"sr_svc"}, !.passes = {"sensor_pg"},
           !.sets = {"json_reader_with_schema_svc"}, !.makes = "controller"],
       Call(254, "cdsw.get_model_endpoint_url"),
       [Call(263, "nf.create_controller") EXCEPT
           !.derefs = {"json_reader_svc"}, !.tlsDerefs = {"ssl_svc"},
           !.passes = {"sensor_pg"}, !.makes = "controller",
           !.arg = "RestLookupService"] >>

\* lines 268-388: funnel, processors, connections
lab4_flow ==
    << [Call(269, "nf.create_funnel") EXCEPT
           !.derefs = {"sensor_pg"}, !.makes = "funnel"],
       KafkaProps(277),
       Processor(279, {"json_reader_with_schema_svc", "json_writer_svc"}),
       Connection(285),
       Processor(287, {"json_reader_with_schema_svc", "json_writer_svc"}),
       Connection(309),
       Connection(310),
       Processor(312, {"json_reader_with_schema_svc", "json_writer_svc"}),
       Connection(323),
       Connection(324),
       [Processor(326, {"json_reader_with_schema_svc"}) EXCEPT
           !.tlsDerefs = {"keytab_svc"}],
       Connection(338),
       Connection(339),
       KafkaProps(346),
       Processor(348, {"json_reader_with_schema_svc", "json_writer_svc"}),
       Connection(357),
       KafkaProps(364),
       Processor(366, {"json_reader_with_schema_svc", "avro_writer_svc"}),
       Connection(375),
       Processor(377, {}),
       Connection(387),
       Connection(388) >>

\* lines 390-396: version the flow, start everything
Lab4Save(flowField) ==
    [Call(391, "nifireg.save_flow_ver") EXCEPT
        !.passes = {"sensor_pg", "reg_client", "sensor_bucket"},
        !.derefs = flowField,
        !.op = IF flowField = {} THEN "save_new" ELSE "save_ver",
        !.arg = "Second version"]

Lab4Start ==
    [Call(396, "canvas.schedule_process_group") EXCEPT
        !.derefs = {"root_pg"}, !.op = "start"]

lab4_commit_newFlow == << Lab4Save({}), Lab4Start >>

lab4_commit == << Lab4Save({"sensor_flow"}), Lab4Start >>

lab4_rest_and_kudu ==
    lab4_variables \o lab4_controllers \o lab4_flow \o lab4_commit

\* teardown, lines 61-63: before the controller loop
teardown_stop ==
    << Call(61, "nf.set_environment"),
       [Call(63, "canvas.schedule_process_group") EXCEPT !.op = "stop"] >>

Delete(line, callee) == [Call(line, callee) EXCEPT !.op = "delete"]

\* teardown, lines 77-85: after the controller loop
teardown_delete_always ==
    << Delete(77, "nf.delete_all"),
       Delete(78, "efm.delete_all"),
       Delete(79, "schreg.delete_all_schemas"),
       [Call(80, "versioning.get_registry_client") EXCEPT !.op = "reg_get"],
       Delete(82, "versioning.delete_registry_client"),
       Delete(83, "nifireg.delete_flows"),
       Delete(84, "kudu.drop_table"),
       Delete(85, "cdsw.delete_all_model_api_keys") >>

teardown_delete ==
    << Delete(77, "nf.delete_all"),
       Delete(78, "efm.delete_all"),
       Delete(79, "schreg.delete_all_schemas"),
       [Call(80, "versioning.get_registry_client") EXCEPT !.op = "reg_get"],
       [Delete(82, "versioning.delete_registry_client") EXCEPT
           !.when = "regClient"],
       Delete(83, "nifireg.delete_flows"),
       Delete(84, "kudu.drop_table"),
       Delete(85, "cdsw.delete_all_model_api_keys") >>

SetupLabs ==
    << "before_setup", "lab1_register_schema", "lab2_nifi_flow",
       "lab4_rest_and_kudu", "after_setup" >>

Body(m) ==
    CASE m = "before_setup" -> before_setup
      [] m = "lab1_register_schema" -> lab1_register_schema
      [] m = "lab2_nifi_flow" -> lab2_nifi_flow
      [] m = "lab4_rest_and_kudu" -> lab4_rest_and_kudu
      [] m = "after_setup" -> after_setup
      [] m = "teardown_stop" -> teardown_stop
      [] m = "teardown_delete" -> teardown_delete
      [] OTHER -> << >>

\* ------------------------------------------------------------- state
VARIABLES
    env,      \* os.environ, the file system and is_tls_enabled()
    remote,   \* what the remote services hold
    ctx,      \* self.context
    loc,      \* local variables that decide a branch
    lab,      \* the method that is running
    pc,       \* the next call site of the method (in the loop: its line)
    status,   \* "running", "returned", "aborted" or "done"
    log,      \* the calls issued so far, in order (the loop's calls are in hist)
    failed,   \* teardown: the loop's flag
    todo,     \* teardown: the controllers the current pass has still to visit
    hist      \* teardown: what the passes did (history only)

vars == << env, remote, ctx, loc, lab, pc, status, log, failed, todo, hist >>

Controllers == 1..MaxControllers

ContextFields ==
    {"root_pg", "efm_pg_id", "flow_id", "sensor_bucket", "reg_client",
     "sensor_pg", "sensor_flow", "ssl_svc", "keytab_svc", "sr_svc",
     "json_reader_svc", "json_writer_svc", "avro_writer_svc",
     "json_reader_with_schema_svc", "from_gw", "temp_funnel"}

\* line 19-22
skip_cdsw_never(environ) == FALSE

skip_cdsw(environ) == "SKIP_CDSW" \in environ

\* lines 25-32: the schema comes from the file, or from the URI when the
\* response is 200; any other response raises ValueError
read_in_schema(environ, path_exists, status_code) ==
    IF "SCHEMA_FILE" \in environ /\ path_exists THEN "ok"
    ELSE IF status_code = HTTP_OK THEN "ok"
    ELSE "ValueError"

\* prereqs() (line 51): the 'edge' workshop ran first and left its own
\* fields (from_gw, temp_funnel) in the shared context
InitialContext ==
    [f \in ContextFields \cup {"skip_cdsw"} |->
        CASE f = "skip_cdsw" -> FALSE
          [] f \in {"from_gw", "temp_funnel"} -> 1
          [] OTHER -> None]

NewHistory ==
    [listed |-> {}, attempted |-> {}, conflict |-> FALSE, any409 |-> FALSE,
     swallowed |-> FALSE, stopped |-> {}, gained |-> {}, regress |-> FALSE,
     progress |-> TRUE, complete |-> 0, exited |-> FALSE]

Init ==
    /\ lab \in {"before_setup", "teardown_stop"}
    /\ pc = 1
    /\ status = "running"
    /\ log = << >>
    /\ ctx = InitialContext
    /\ loc = [ssl_found |-> FALSE, reg_client |-> FALSE]
    /\ failed = FALSE
    /\ todo = << >>
    /\ hist = NewHistory
    /\ env \in [environ : SUBSET {"SKIP_CDSW", "SCHEMA_FILE"},
                path_exists : BOOLEAN, tls : BOOLEAN]
    /\ lab = "teardown_stop" =>
          env = [environ |-> {}, path_exists |-> FALSE, tls |-> FALSE]
    /\ \E b \in BOOLEAN, e \in BOOLEAN, r \in BOOLEAN,
          cs \in SUBSET Controllers :
          /\ lab = "before_setup" => (r = FALSE /\ cs = {})
          /\ lab = "teardown_stop" => (b = FALSE /\ e = FALSE)
          /\ remote =
               [bucket |-> b,
                ssl |-> [exists |-> e, enabled |-> e, rev |-> 1,
                         updated |-> FALSE, created |-> 0],
                flows |-> 0, versions |-> << >>, made |-> {},
                reg_client |-> r, controllers |-> cs]

\* ------------------------------------------------------ one call site
Site == Body(lab)[pc]

AtSite == status = "running" /\ pc \in 1..Len(Body(lab))

Reads(s) == s.derefs \cup (IF env.tls THEN s.tlsDerefs ELSE {})

\* what a call can do: an attribute of None raises before the call is made
Outcomes(s) ==
    IF \E f \in Reads(s) : ctx[f] = None THEN {"AttributeError"}
    ELSE CASE s.op \in {"skip_cdsw", "assign_none"} -> {"ok"}
           [] s.op = "read_in_schema" ->
                {read_in_schema(env.environ, env.path_exists, c) : c \in HttpStatuses}
           [] OTHER -> {"ok", "raise"}

Entry(s, out) ==
    [lab |-> lab, line |-> s.line, callee |-> s.callee, op |-> s.op,
     out |-> out, arg |-> s.arg, makes |-> s.makes,
     reads |-> Reads(s), passes |-> s.passes,
     nulls |-> {f \in Reads(s) \cup s.passes : ctx[f] = None},
     enabled |-> remote.ssl.enabled,
     stale |-> ("ssl_svc" \in s.passes /\ ctx["ssl_svc"] # remote.ssl.rev),
     flow |-> IF s.op = "save_ver" THEN ctx["sensor_flow"] ELSE None]

Result(s) ==
    CASE s.op = "bucket_get" -> IF remote.bucket THEN 1 ELSE None
      [] s.op \in {"ssl_lookup", "ssl_get"} ->
           IF remote.ssl.exists THEN remote.ssl.rev ELSE None
      [] s.op = "save_new" -> remote.flows + 1
      [] s.op = "assign_none" -> None
      [] OTHER -> 1

ContextAfter(s) ==
    [f \in DOMAIN ctx |->
        IF f \notin s.sets THEN ctx[f]
        ELSE IF f = "skip_cdsw" THEN skip_cdsw(env.environ)
        ELSE Result(s)]

LocalsAfter(s) ==
    CASE s.op = "ssl_lookup" -> [loc EXCEPT !.ssl_found = Result(s) # None]
      [] s.op = "reg_get" -> [loc EXCEPT !.reg_client = remote.reg_client]
      [] OTHER -> loc

Bump(ssl) == [ssl EXCEPT !.rev = @ + 1]

RemoteAfter(s) ==
    LET r == [remote EXCEPT
                 !.made = IF s.makes = "" THEN @ ELSE @ \cup {<< lab, s.line >>}]
    IN CASE s.op = "bucket_create" -> [r EXCEPT !.bucket = TRUE]
         [] s.op = "ssl_disable" -> [r EXCEPT !.ssl = Bump([@ EXCEPT !.enabled = FALSE])]
         [] s.op = "ssl_update" -> [r EXCEPT !.ssl = Bump([@ EXCEPT !.updated = TRUE])]
         [] s.op = "ssl_enable" -> [r EXCEPT !.ssl = Bump([@ EXCEPT !.enabled = TRUE])]
         [] s.op = "ssl_create" ->
              [r EXCEPT !.ssl = [exists |-> TRUE, enabled |-> TRUE, rev |-> 1,
                                 updated |-> TRUE, created |-> @.created + 1]]
         [] s.op = "save_new" ->
              [r EXCEPT !.flows = @ + 1,
                        !.versions = Append(@, [flow |-> r.flows + 1, comment |-> s.arg])]
         [] s.op = "save_ver" ->
              [r EXCEPT !.versions = Append(@, [flow |-> ctx["sensor_flow"], comment |-> s.arg])]
         [] OTHER -> r

\* the branch conditions of the methods
Holds(when, c, l) ==
    CASE when = "always" -> TRUE
      [] when = "noBucket" -> c["sensor_bucket"] = None
      [] when = "tls" -> env.tls
      [] when = "notTls" -> ~env.tls
      [] when = "tlsFound" -> env.tls /\ l.ssl_found
      [] when = "tlsNotFound" -> env.tls /\ ~l.ssl_found
      [] when = "notSkip" -> ~c["skip_cdsw"]
      [] when = "regClient" -> l.reg_client

NextPc(m, i, c, l) ==
    LET later == {j \in (i + 1)..Len(Body(m)) : Holds(Body(m)[j].when, c, l)}
    IN IF later = {} THEN Len(Body(m)) + 1
       ELSE CHOOSE j \in later : \A k \in later : j <= k

\* the call returns: its result is stored and the method goes on
CallReturns ==
    /\ AtSite
    /\ "ok" \in Outcomes(Site)
    /\ log' = Append(log, Entry(Site, "ok"))
    /\ ctx' = ContextAfter(Site)
    /\ loc' = LocalsAfter(Site)
    /\ remote' = RemoteAfter(Site)
    /\ LET next == NextPc(lab, pc, ctx', loc')
       IN IF next <= Len(Body(lab))
            THEN /\ pc' = next
                 /\ UNCHANGED << lab, status >>
          ELSE IF lab = "teardown_stop"
            THEN /\ lab' = "teardown_loop"
                 /\ pc' = 66
                 /\ UNCHANGED status
          ELSE /\ pc' = next
               /\ status' = IF lab = "teardown_delete" THEN "done" ELSE "returned"
               /\ UNCHANGED lab
    /\ UNCHANGED << env, failed, todo, hist >>

\* the call raises: nothing in the methods catches it
CallRaises_retry ==
    /\ AtSite
    /\ \E out \in Outcomes(Site) \ {"ok"} :
          log' = Append(log, Entry(Site, out))
    /\ UNCHANGED << env, remote, ctx, loc, lab, pc, status, failed, todo, hist >>

CallRaises ==
    /\ AtSite
    /\ \E out \in Outcomes(Site) \ {"ok"} :
          log' = Append(log, Entry(Site, out))
    /\ status' = "aborted"
    /\ UNCHANGED << env, remote, ctx, loc, lab, pc, failed, todo, hist >>

\* the setup runs the labs in order, each after the one before returned
NextLab ==
    /\ status = "returned"
    /\ \E i \in 1..Len(SetupLabs) :
          /\ SetupLabs[i] = lab
          /\ IF i < Len(SetupLabs)
               THEN /\ lab' = SetupLabs[i + 1]
                    /\ pc' = NextPc(SetupLabs[i + 1], 0, ctx, loc)
                    /\ status' = "running"
               ELSE /\ status' = "done"
                    /\ UNCHANGED << lab, pc >>
    /\ UNCHANGED << env, remote, ctx, loc, log, failed, todo, hist >>

\* ------------------------------------------- teardown, lines 64-75
\* what canvas.schedule_controller(controller, False) can answer: it
\* returns, raises ApiException(status, body), or raises something else
Responses ==
    [kind : {"ok", "Exception"}, status : {0}, referenced : {FALSE}]
    \cup [kind : {"ApiException"}, status : {HTTP_CONFLICT, 500},
          referenced : BOOLEAN]

RECURSIVE Ascending(_)
Ascending(S) ==
    IF S = {} THEN << >>
    ELSE LET m == CHOOSE x \in S : \A y \in S : x <= y
         IN << m >> \o Ascending(S \ {m})

\* line 65
ResetFailed_keep(f) == f

ResetFailed(f) == FALSE

\* lines 70-73: the handler sets the flag on the conflict and does nothing
\* else; it does not raise again
OnApiException(exc, f) ==
    IF exc.status = HTTP_CONFLICT /\ exc.referenced THEN TRUE ELSE f

\* line 66: the for loop goes on with the next controller after the handler
Remaining_break(rest, exc) ==
    IF exc.kind = "ApiException" /\ exc.status = HTTP_CONFLICT /\ exc.referenced
    THEN << >> ELSE Tail(rest)

Remaining(rest, exc) == Tail(rest)

\* lines 74-75
Break(f) == ~f

Conflict(r) == r.kind = "ApiException" /\ r.status = HTTP_CONFLICT /\ r.referenced

InLoop == status = "running" /\ lab = "teardown_loop"

\* lines 65-66: a pass starts: the flag is reset, the controllers are listed
ListControllers ==
    /\ InLoop
    /\ pc = 66
    /\ failed' = ResetFailed(failed)
    /\ \E out \in {"ok", "raise"} :
          IF out = "ok"
            THEN /\ todo' = Ascending(remote.controllers)
                 /\ pc' = 68
                 /\ hist' = [hist EXCEPT !.listed = remote.controllers,
                                         !.attempted = {}, !.conflict = FALSE,
                                         !.any409 = FALSE, !.gained = {},
                                         !.regress = FALSE]
                 /\ UNCHANGED status
            ELSE /\ status' = "aborted"
                 /\ UNCHANGED << todo, pc, hist >>
    /\ UNCHANGED << env, remote, ctx, loc, lab, log >>

\* lines 67-73: one controller of the pass
StopController ==
    /\ InLoop
    /\ pc = 68
    /\ todo # << >>
    /\ \E r \in Responses :
          LET controller == Head(todo)
          IN /\ failed' = IF r.kind = "ApiException"
                            THEN OnApiException(r, failed) ELSE failed
             /\ IF r.kind = "Exception"
                  THEN /\ status' = "aborted"
                       /\ UNCHANGED todo
                  ELSE /\ todo' = Remaining(todo, r)
                       /\ UNCHANGED status
             /\ hist' =
                  [hist EXCEPT
                     !.attempted = @ \cup {controller},
                     !.stopped = IF r.kind = "ok" THEN @ \cup {controller} ELSE @,
                     !.gained = IF r.kind = "ok" /\ controller \notin hist.stopped
                                  THEN @ \cup {controller} ELSE @,
                     !.any409 = @ \/ (r.kind = "ApiException" /\ r.status = HTTP_CONFLICT),
                     !.conflict = @ \/ Conflict(r),
                     !.swallowed = @ \/ (r.kind = "ApiException" /\ ~Conflict(r)),
                     !.regress = @ \/ (Conflict(r) /\ controller \in hist.stopped)]
    /\ UNCHANGED << env, remote, ctx, loc, lab, pc, log >>

\* lines 74-75: the pass is over: leave the loop or start another pass
EndPass ==
    /\ InLoop
    /\ pc = 68
    /\ todo = << >>
    /\ IF Break(failed)
         THEN /\ lab' = "teardown_delete"
              /\ pc' = 1
         ELSE /\ pc' = 66
              /\ UNCHANGED lab
    /\ hist' = [hist EXCEPT
                  !.progress = @ /\ hist.gained # {} /\ ~hist.regress,
                  !.complete = Min(@ + 1, MaxPasses),
                  !.exited = Break(failed)]
    /\ UNCHANGED << env, remote, ctx, loc, status, log, failed, todo >>

Next ==
    \/ CallReturns
    \/ CallRaises
    \/ NextLab
    \/ ListControllers
    \/ StopController
    \/ EndPass

Spec == Init /\ [][Next]_vars

\* the script is one thread that runs on: a call returns or raises
FairSpec == Spec /\ WF_vars(Next)

\* ------------------------------------------------------------ claims
IsPrefix(a, b) == Len(a) <= Len(b) /\ \A i \in 1..Len(a) : a[i] = b[i]

InSetup == \E i \in 1..Len(SetupLabs) : SetupLabs[i] = lab

InTeardown == ~InSetup

Issued(callee) == \E i \in 1..Len(log) : log[i].callee = callee

IssuedAt(m, line) == \E i \in 1..Len(log) : log[i].lab = m /\ log[i].line = line

Callees(entries) == [i \in 1..Len(entries) |-> entries[i].callee]

IsDeletion(e) == e.op = "delete"

\* C1: teardown leaves the controller loop, and calls nf.delete_all, only
\* after a pass in which no stop attempt reported an HTTP 409 error.
C1_NoDeleteAfter409 ==
    (hist.exited \/ Issued("nf.delete_all")) => ~hist.any409

\* C2: an ApiException of schedule_controller that is not the 409 'is
\* referenced by' conflict reaches the caller: teardown has aborted and no
\* deletion step was executed.
C2_OtherApiExceptionAborts ==
    hist.swallowed =>
        /\ status = "aborted"
        /\ \A i \in 1..Len(log) : ~IsDeletion(log[i])

\* C3 as stated: whatever the remote service answers, teardown leaves the
\* controller loop after finitely many passes (for the deletion steps, or
\* with an exception).
C3_LoopAlwaysLeft ==
    (lab = "teardown_loop") ~> (lab # "teardown_loop" \/ status = "aborted")

\* C3 as amended: when every completed pass stopped a controller that was
\* not stopped before, and no stopped controller reported a conflict, the
\* loop makes at most as many passes as there are controllers.
C3_ProgressBoundsPasses ==
    (hist.progress /\ hist.complete >= 1) =>
        IF lab = "teardown_loop"
        THEN hist.complete < Cardinality(remote.controllers)
        ELSE hist.complete <= Cardinality(remote.controllers)

C3_Witness ==
    /\ hist.exited
    /\ hist.progress
    /\ hist.complete = MaxControllers
    /\ Cardinality(remote.controllers) = MaxControllers

TeardownCalls(reg_client) ==
    << "nf.set_environment", "canvas.schedule_process_group", "nf.delete_all",
       "efm.delete_all", "schreg.delete_all_schemas",
       "versioning.get_registry_client" >>
    \o (IF reg_client THEN << "versioning.delete_registry_client" >> ELSE << >>)
    \o << "nifireg.delete_flows", "kudu.drop_table",
          "cdsw.delete_all_model_api_keys" >>

\* C4: teardown's calls come in one fixed order, each after the previous
\* one returned: stop the root process group, the controller passes, then
\* the deletions, the registry client's only when the lookup returned one;
\* no deletion comes before the stop and the exit of the loop, none is
\* repeated or out of order.
C4_TeardownSequence ==
    InTeardown =>
        /\ IsPrefix(Callees(log), TeardownCalls(remote.reg_client))
        /\ \A i \in 1..(Len(log) - 1) : log[i].out = "ok"
        /\ lab = "teardown_loop" => Len(log) = 2
        /\ \A i \in 1..Len(log) :
              (IsDeletion(log[i]) \/ log[i].op = "reg_get") =>
                  /\ i > 2
                  /\ log[2].op = "stop"
                  /\ hist.exited
                  /\ hist.complete >= 1

C4_Witness ==
    /\ InTeardown
    /\ status = "done"
    /\ remote.reg_client
    /\ Len(log) = Len(TeardownCalls(TRUE))
    /\ hist.complete >= 2

\* C5: a setup lab issues each of its call sites at most once; a call that
\* raises ends the run there, so it is the last call issued; nothing the
\* labs created is deleted again.
C5_NoRetryNoRollback ==
    InSetup =>
        /\ \A i, j \in 1..Len(log) :
              (i < j /\ log[i].lab = log[j].lab /\ log[i].line = log[j].line)
                  => log[i].callee # log[j].callee
        /\ \A i \in 1..Len(log) :
              /\ ~IsDeletion(log[i])
              /\ log[i].out # "ok" =>
                    /\ status = "aborted"
                    /\ lab = log[i].lab
                    /\ \A j \in (i + 1)..Len(log) : log[j].lab # log[i].lab
        /\ status = "aborted" => (log # << >> /\ log[Len(log)].out # "ok")
        /\ remote.made =
              {<< log[i].lab, log[i].line >> :
                  i \in {k \in 1..Len(log) : log[k].makes # "" /\ log[k].out = "ok"}}

C5_Witness ==
    /\ status = "aborted"
    /\ lab = "lab4_rest_and_kudu"
    /\ log[Len(log)].callee = "nifireg.save_flow_ver"
    /\ \E i \in 1..Len(log) : log[i].makes = "processor" /\ log[i].lab = lab

\* C6: in a setup run every context field is non-null when a call reads it
\* (no call fails on an attribute of None); with TLS the ids of ssl_svc and
\* keytab_svc are read and are non-null, whether the SSL context service
\* existed or was created; without TLS both are None and are never read.
C6_ContextFieldsSet ==
    InSetup =>
        /\ \A i \in 1..Len(log) :
              /\ log[i].nulls = {}
              /\ log[i].out # "AttributeError"
              /\ ("ssl_svc" \in log[i].reads \/ "keytab_svc" \in log[i].reads)
                     => env.tls
              /\ (env.tls /\ log[i].lab = "lab2_nifi_flow" /\ log[i].line = 158)
                     => {"ssl_svc", "keytab_svc"} \subseteq log[i].reads
              /\ (env.tls /\ log[i].arg = "RestLookupService")
                     => "ssl_svc" \in log[i].reads
              /\ (env.tls /\ log[i].lab = "lab4_rest_and_kudu" /\ log[i].line = 326)
                     => "keytab_svc" \in log[i].reads
        /\ (~env.tls /\ IssuedAt("lab2_nifi_flow", 147)) =>
              (ctx["ssl_svc"] = None /\ ctx["keytab_svc"] = None)
        /\ (env.tls /\ IssuedAt("lab2_nifi_flow", 158)) =>
              (ctx["ssl_svc"] # None /\ ctx["keytab_svc"] # None)

C6_Witness ==
    /\ status = "done"
    /\ env.tls
    /\ remote.ssl.created = 1
    /\ \E i \in 1..Len(log) :
          log[i].arg = "RestLookupService" /\ "ssl_svc" \in log[i].reads

Creates(m, upto) ==
    {log[i].line : i \in {k \in 1..upto : log[k].lab = m /\ log[k].makes # ""}}

\* the objects the body of a lab creates on every path
AlwaysMade(m) ==
    {Body(m)[i].line :
        i \in {k \in 1..Len(Body(m)) :
                  Body(m)[k].makes # "" /\ Body(m)[k].when = "always"}}

\* C7: the three versions are saved in order against one flow: 'Enabled
\* version control' right after the process group is created, 'First
\* version' after every lab2 component and before the start, 'Second
\* version' after every lab4 component and before the start, the two later
\* ones with the flow id the first save returned.
C7_VersionsInOrder ==
    InSetup =>
        /\ IsPrefix([i \in 1..Len(remote.versions) |-> remote.versions[i].comment],
                    << "Enabled version control", "First version", "Second version" >>)
        /\ \A i \in 1..Len(remote.versions) :
              remote.versions[i].flow = remote.versions[1].flow
        /\ remote.versions # << >> => ctx["sensor_flow"] = remote.versions[1].flow
        /\ \A i \in 1..Len(log) :
              /\ log[i].arg = "Enabled version control" =>
                    (i > 1 /\ log[i - 1].callee = "canvas.create_process_group"
                           /\ Creates(log[i].lab, i) \subseteq {96, 99, 101})
              /\ log[i].arg \in {"First version", "Second version"} =>
                    /\ log[i].flow = remote.versions[1].flow
                    /\ AlwaysMade(log[i].lab) \subseteq Creates(log[i].lab, i)
                    /\ Creates(log[i].lab, Len(log)) = Creates(log[i].lab, i)
                    /\ i < Len(log) =>
                          (log[i + 1].callee = "canvas.schedule_process_group"
                              /\ log[i + 1].op = "start")

C7_Witness ==
    /\ status = "done"
    /\ Len(remote.versions) = 3

SslChanges(entries) ==
    SelectSeq(entries,
              LAMBDA e : e.op \in {"ssl_disable", "ssl_update", "ssl_enable", "ssl_create"})

Ops(entries) == [i \in 1..Len(entries) |-> entries[i].op]

\* C8: with TLS, an existing SSL context service is disabled, fetched,
\* updated, fetched and enabled: the update is never issued while it is
\* enabled, every call is given the entity fetched after the last change,
\* and at the end it was asked to enable; a missing one is created once,
\* enabled, with no disable or update; without TLS none of this happens.
C8_SslContextProtocol ==
    InSetup =>
        LET changes == SslChanges(log)
            after == IssuedAt("lab2_nifi_flow", 136) \/ IssuedAt("lab2_nifi_flow", 147)
        IN /\ \A i \in 1..Len(log) :
                 /\ log[i].op = "ssl_update" => ~log[i].enabled
                 /\ log[i].op = "ssl_create" => "root_pg" \in log[i].passes
                 /\ log[i].op \in {"ssl_disable", "ssl_update", "ssl_enable"} =>
                       (~log[i].stale /\ log[i - 1].callee = "canvas.get_controller"
                                      /\ log[i - 1].out = "ok")
           /\ ~env.tls => (changes = << >> /\ remote.ssl.created = 0 /\ remote.ssl.rev = 1)
           /\ (env.tls /\ loc.ssl_found) =>
                 /\ IsPrefix(Ops(changes), << "ssl_disable", "ssl_update", "ssl_enable" >>)
                 /\ remote.ssl.created = 0
                 /\ after => (Len(changes) = 3 /\ remote.ssl.enabled /\ remote.ssl.updated)
           /\ (env.tls /\ ~loc.ssl_found) =>
                 /\ IsPrefix(Ops(changes), << "ssl_create" >>)
                 /\ after => (remote.ssl.created = 1 /\ remote.ssl.enabled
                                /\ << "lab2_nifi_flow", 128 >> \in remote.made)

C8_Witness ==
    /\ env.tls
    /\ loc.ssl_found
    /\ Len(SslChanges(log)) = 3
    /\ status = "done"

\* C9: a conflict does not cut a pass short: at the end of a pass every
\* listed controller got its stop attempt; every pass lists all the
\* controllers again, the stopped ones included; the flag tells of the
\* current pass only, so the loop is left after a pass without conflict.
C9_PassVisitsAll ==
    /\ (lab = "teardown_loop" /\ pc = 68) =>
          /\ hist.listed = remote.controllers
          /\ failed = hist.conflict
          /\ status = "running" =>
                hist.attempted \cup {todo[i] : i \in 1..Len(todo)} = hist.listed
          /\ (status = "running" /\ todo = << >>) => hist.attempted = hist.listed
    /\ (lab = "teardown_loop" /\ pc = 66 /\ hist.complete >= 1) => hist.conflict
    /\ hist.exited => (~hist.conflict /\ hist.attempted = remote.controllers)

C9_Witness ==
    /\ lab = "teardown_loop"
    /\ pc = 68
    /\ todo = << >>
    /\ status = "running"
    /\ hist.complete >= 1
    /\ ~hist.conflict
    /\ hist.stopped \cap hist.attempted # {}
    /\ hist.gained # {}
    /\ hist.gained # hist.attempted

VariableStep ==
    {"cdsw.get_model_access_key", "canvas.update_variable_registry",
     "cdsw.create_model_api_key"}

Lab4Log == SelectSeq(log, LAMBDA e : e.lab = "lab4_rest_and_kudu")

Lab4Rest ==
    SelectSeq(lab4_rest_and_kudu, LAMBDA s : s.when = "always")

\* C10: SKIP_CDSW in the environment at before_setup decides the variable
\* step of lab4: set, none of its calls is issued; not set, the access key
\* and then the model API key are set, after kudu.create_table and before
\* any lab4 controller or processor; the rest of lab4 is the same calls in
\* the same order either way.
C10_SkipCdsw ==
    InSetup =>
        LET step == SelectSeq(Lab4Log, LAMBDA e : e.callee \in VariableStep)
            rest == SelectSeq(Lab4Log, LAMBDA e : e.callee \notin VariableStep)
            made == \E i \in 1..Len(Lab4Log) :
                       Lab4Log[i].makes \in {"controller", "processor"}
        IN /\ IssuedAt("before_setup", 55) =>
                 ctx["skip_cdsw"] = ("SKIP_CDSW" \in env.environ)
           /\ "SKIP_CDSW" \in env.environ => step = << >>
           /\ "SKIP_CDSW" \notin env.environ =>
                 /\ IsPrefix([i \in 1..Len(step) |-> << step[i].callee, step[i].arg >>],
                             << << "cdsw.get_model_access_key", "" >>,
                                << "canvas.update_variable_registry", "cdsw.access.key" >>,
                                << "cdsw.create_model_api_key", "" >>,
                                << "canvas.update_variable_registry", "cdsw.model.api.key" >> >>)
                 /\ step # << >> => Lab4Log[1].callee = "kudu.create_table"
                 /\ made => (Len(step) = 4 /\ \A i \in 1..4 : step[i].out = "ok")
           /\ IsPrefix([i \in 1..Len(rest) |-> << rest[i].line, rest[i].callee >>],
                       [i \in 1..Len(Lab4Rest) |-> << Lab4Rest[i].line, Lab4Rest[i].callee >>])
           /\ status \in {"returned", "done"} /\ Lab4Log # << >> =>
                 Len(rest) = Len(Lab4Rest)

C10_Witness ==
    /\ "SKIP_CDSW" \in env.environ
    /\ status = "done"
    /\ Len(Lab4Log) = Len(Lab4Rest)
    /\ Issued("cdsw.get_model_endpoint_url")

====
